---- MODULE Spec2Model ----
(***************************************************************************)
(* A model of packages/app/src/app/overmind/factories.ts: the app-load     *)
(* gate (withLoadApp), the ownership gate (withOwnedSandbox) and the modal *)
(* factory (createModals).                                                 *)
(*                                                                         *)
(* JavaScript runs one task at a time: an action of the model is the code  *)
(* an invocation runs from one await to the next, taken atomically.        *)
(***************************************************************************)
EXTENDS Integers, Sequences, FiniteSets, TLC

\* ------------------------------------------------------------------ bounds
\* Invocations of withLoadApp actions in one run.
MaxLoadCalls == 2

LoadCalls == 1..MaxLoadCalls

\* Invocations of withOwnedSandbox actions in one run.
MaxOwnedCalls == 2

OwnedCalls == 1..MaxOwnedCalls

\* Promises made by the open actions of the modals in one run.
MaxOpens == 3

PromiseIds == 1..MaxOpens

\* Payloads an action is dispatched with.
Payloads == {"v1", "v2"}

\* The profile effects.api.getCurrentUser resolves with.
Users == {"u1"}
NoUser == "null"

\* What effects.browser.storage.get(TEAM_ID_LOCAL_STORAGE) returns.
NoTeam == "null"
StoredTeams == {NoTeam, "team1"}

\* Bodies of the .all-contributorsrc response (response.data.contributors).
ContributorLists ==
    { << >>,
      << [login |-> "alice", name |-> "Alice"] >>,
      << [login |-> "alice", name |-> "Alice"], [login |-> "bob", name |-> "Bob"] >> }

\* ------------------------------------------------------------------- state
VARIABLES
    hasLoadedApp,       \* state.hasLoadedApp
    isAuthenticating,   \* state.isAuthenticating
    hasLogIn,           \* state.hasLogIn
    user,               \* state.user
    contributors,       \* state.contributors
    activeTeam,         \* state.dashboard.activeTeam
    jwt,                \* localStorage.jwt is present
    storedTeam,         \* the team id kept in browser storage
    anonymousId,        \* effects.analytics.setAnonymousId() has run
    notifications,      \* notifications added to notificationState
    loadedWrites,       \* times state.hasLoadedApp went from false to true
    bootstraps,         \* invocations that went past line 26 into bootstrap
    load,               \* the invocations of withLoadApp actions
    observed            \* the invocation whose history is recorded

loadVars ==
    << hasLoadedApp, isAuthenticating, hasLogIn, user, contributors, activeTeam,
       jwt, storedTeam, anonymousId, notifications, loadedWrites, bootstraps, load,
       observed >>

VARIABLES
    currentSandbox,     \* state.editor.currentSandbox
    sessionFrozen,      \* state.editor.sessionFrozen
    isForkingSandbox,   \* state.editor.isForkingSandbox
    forksRunning,       \* calls of actions.editor.internal.forkSandbox in flight
    own,                \* the invocations of withOwnedSandbox actions
    current,            \* state.modals.current
    modalState,         \* state.modals[name], the modal's own state
    resolver,           \* createModal's `resolver` of each modal: the promise it resolves
    promise,            \* the promises made by open: pending, or the value resolved with
    opened,             \* the modal whose open made each promise
    closeErrors         \* calls of close that threw

ownedVars == << currentSandbox, sessionFrozen, isForkingSandbox, forksRunning, own >>

modalVars == << current, modalState, resolver, promise, opened, closeErrors >>

vars == << loadVars, ownedVars, modalVars >>

\* An invocation that was not dispatched yet.
IdleLoad ==
    [ pc |-> "idle",            \* the await the invocation is suspended at
      cont |-> FALSE,           \* a continueAction was supplied
      value |-> "v1",           \* the payload of the dispatch
      booted |-> FALSE,         \* the invocation went past line 26 into bootstrap
      effects |-> {},           \* the effects and actions the invocation called
      failed |-> {},            \* the calls of the invocation that threw
      reported |-> 0,           \* calls of actions.internal.handleError
      contCalls |-> << >>,      \* the payloads continueAction was called with
      logInOnEntry |-> FALSE,   \* state.hasLogIn when dispatched
      jwtOnEntry |-> FALSE ]    \* localStorage.jwt when dispatched

\* The calls of the login sequence between the profile fetch and the socket
\* acquisition (lines 64-79), and those after it (lines 80-81), in order.
LoginStepsAfterUser ==
    << "setPatronPrice", "identify", "setUserId", "storage.get",
       "trackCurrentTeams", "showUserSurveyIfNeeded" >>
LoginStepsAfterSocket == << "userNotifications.initialize", "preloadTemplates" >>

\* The calls of a sequence that throw when made, as an input: the call run in
\* a try of its own may throw, and one more, which ends the sequence.
Throwing(steps) ==
    { t \in SUBSET { steps[i] : i \in 1..Len(steps) } :
        Cardinality(t \ {"trackCurrentTeams"}) <= 1 }

None == "none"

\* Every invocation runs the same code. The history of what an invocation did
\* (the calls it made, those that threw, what it reported, what it found when
\* dispatched, what it passed on) is recorded for one of them, `observed`,
\* which is any of them. Of the others only what their code still reads is
\* kept: where they are suspended and, until lines 94-96 have read it, whether
\* a continuation was supplied.
NoHistory(c) ==
    [IdleLoad EXCEPT !.pc = c.pc,
                     !.cont = c.cont /\ c.pc \in {"getCurrentUser", "getSocket"}]

Recorded(p, c) == IF p = observed THEN c ELSE NoHistory(c)

Range(s) == { s[i] : i \in 1..Len(s) }

EscapesAlways(step) == TRUE

\* Lines 73-77: only trackCurrentTeams is called in a try of its own, whose
\* catch is empty; the exception of any other call leaves the login sequence
\* for the catch of line 83.
Escapes(step) == step # "trackCurrentTeams"

\* The calls of `steps` run in order from the i-th on, `throwing` being the calls
\* that throw when made: the calls made, those that threw, and the one whose
\* exception left the sequence (None: the sequence ran to its end).
RECURSIVE RunFrom(_, _, _)
RunFrom(steps, throwing, i) ==
    IF i > Len(steps)
    THEN [called |-> {}, failed |-> {}, escaped |-> None]
    ELSE IF steps[i] \in throwing /\ Escapes(steps[i])
    THEN [called |-> {steps[i]}, failed |-> {steps[i]}, escaped |-> steps[i]]
    ELSE LET rest == RunFrom(steps, throwing, i + 1)
         IN  [called |-> {steps[i]} \cup rest.called,
              failed |-> (IF steps[i] \in throwing THEN {steps[i]} ELSE {}) \cup rest.failed,
              escaped |-> rest.escaped]

RunSteps(steps, throwing) == RunFrom(steps, throwing, 1)


\* response.data.contributors.map(contributor => contributor.login)
Logins(list) == [ i \in 1..Len(list) |-> list[i].login ]

\* ------------------------------------------------------------ withLoadApp
\* Lines 98-99: state.hasLoadedApp = true; state.isAuthenticating = false.
MarkLoaded ==
    /\ hasLoadedApp' = TRUE
    /\ isAuthenticating' = FALSE
    /\ loadedWrites' = IF hasLoadedApp THEN loadedWrites ELSE loadedWrites + 1

\* Lines 98-102: bootstrap is marked complete and the contributor list is
\* requested; the invocation is suspended at the await of effects.http.get.
Finish(p, c) ==
    /\ MarkLoaded
    /\ load' = [load EXCEPT ![p] =
                  Recorded(p, [c EXCEPT !.pc = "http.get", !.effects = @ \cup {"http.get"}])]

\* Lines 94-96: the continuation is called with the context and the payload of
\* the dispatch, and awaited.
CallContinue(c, at) ==
    [c EXCEPT !.pc = at, !.contCalls = Append(@, c.value)]

AfterBranchMarkingFirst(p, c, auth) ==
    IF c.cont
    THEN /\ load' = [load EXCEPT ![p] = Recorded(p, CallContinue(c, "continueAction"))]
         /\ MarkLoaded
    ELSE Finish(p, c)

\* Lines 94-102, run when the login or the anonymous branch is left. `auth` is
\* what state.isAuthenticating holds at that point.
AfterBranch(p, c, auth) ==
    IF c.cont
    THEN /\ load' = [load EXCEPT ![p] = Recorded(p, CallContinue(c, "continueAction"))]
         /\ isAuthenticating' = auth
         /\ UNCHANGED << hasLoadedApp, loadedWrites >>
    ELSE Finish(p, c)

CatchLoginSilently(c, thrown) == [c EXCEPT !.failed = @ \cup {thrown}]

\* Lines 83-88: the catch of the login sequence reports through handleError.
CatchLogin(c, thrown) ==
    [c EXCEPT !.failed = @ \cup {thrown},
              !.reported = @ + 1,
              !.effects = @ \cup {"handleError"}]

AlreadyLoadedAuthenticating(p, c) ==
    /\ load' = [load EXCEPT ![p] =
                  Recorded(p, IF c.cont THEN CallContinue(c, "continueLoaded")
                                        ELSE [c EXCEPT !.pc = "done"])]
    /\ isAuthenticating' = TRUE
    /\ UNCHANGED << hasLoadedApp, hasLogIn, user, contributors, activeTeam, jwt,
                    storedTeam, anonymousId, notifications, loadedWrites, bootstraps >>

\* Lines 20-26: the app was loaded already; only the continuation runs.
AlreadyLoaded(p, c) ==
    /\ load' = [load EXCEPT ![p] =
                  Recorded(p, IF c.cont THEN CallContinue(c, "continueLoaded")
                                        ELSE [c EXCEPT !.pc = "done"])]
    /\ UNCHANGED << hasLoadedApp, isAuthenticating, hasLogIn, user, contributors,
                    activeTeam, jwt, storedTeam, anonymousId, notifications,
                    loadedWrites, bootstraps >>

LogInOnlyWithoutToken(token, logIn) == ~token

LogInIgnoringToken(token, logIn) == logIn

\* Line 61: the login branch is taken when state.hasLogIn holds after the
\* legacy-token check (lines 34-59), which clears it.
LogInAfterLegacyCheck(token, logIn) == IF token THEN FALSE ELSE logIn

\* Lines 28-96: the first part of bootstrap, up to its first await.
Bootstrap(p, c) ==
    LET logIn == LogInAfterLegacyCheck(jwt, hasLogIn)
        c1 == [c EXCEPT !.booted = TRUE, !.effects = @ \cup
                 {"connection.addListener", "setStoredSettings", "codesandboxApi.listen",
                  "legacyTokenCheck"}]
    IN  /\ hasLogIn' = logIn
        /\ jwt' = FALSE
        /\ notifications' = IF jwt THEN notifications + 1 ELSE notifications
        /\ bootstraps' = bootstraps + 1
        /\ UNCHANGED << user, contributors, activeTeam, storedTeam >>
        /\ IF logIn
           THEN /\ load' = [load EXCEPT ![p] =
                              Recorded(p, [c1 EXCEPT !.pc = "getCurrentUser",
                                                     !.effects = @ \cup {"getCurrentUser"}])]
                /\ isAuthenticating' = TRUE
                /\ UNCHANGED << hasLoadedApp, loadedWrites, anonymousId >>
           ELSE /\ anonymousId' = TRUE
                /\ AfterBranch(p, [c1 EXCEPT !.effects = @ \cup
                                     {"identifyAnonymous", "setAnonymousId"}], TRUE)

\* Lines 17-26: a withLoadApp action is dispatched with payload v; `k` says
\* whether the action was made with a continueAction.
LoadInvoke(p, k, v) ==
    /\ load[p].pc = "idle"
    /\ p > 1 => load[p - 1].pc # "idle"
    /\ UNCHANGED << observed, ownedVars, modalVars >>
    /\ LET c == [IdleLoad EXCEPT !.cont = k, !.value = v,
                                 !.logInOnEntry = hasLogIn,
                                 !.jwtOnEntry = jwt]
       IN  IF hasLoadedApp THEN AlreadyLoaded(p, c) ELSE Bootstrap(p, c)


\* Lines 63-79 and 83-96: effects.api.getCurrentUser() settles. `ok` says whether
\* it resolved, with the profile u; `throwing` are the calls of lines 64-78 that
\* throw when made.
LoadUserReturn(p, ok, u, throwing) ==
    /\ load[p].pc = "getCurrentUser"
    /\ UNCHANGED << contributors, jwt, storedTeam, anonymousId, notifications, hasLogIn,
                    bootstraps, observed, ownedVars, modalVars >>
    /\ IF ~ok
       THEN /\ throwing = {}
            /\ UNCHANGED << user, activeTeam >>
            /\ AfterBranch(p, CatchLogin(load[p], "getCurrentUser"), isAuthenticating)
       ELSE LET run == RunSteps(LoginStepsAfterUser, throwing)
                c1 == [load[p] EXCEPT !.effects = @ \cup run.called,
                                      !.failed = @ \cup run.failed]
            IN  /\ throwing \subseteq run.called
                /\ user' = u
                /\ activeTeam' =
                     IF /\ "storage.get" \in run.called
                        /\ run.escaped # "storage.get"
                        /\ storedTeam # NoTeam
                     THEN storedTeam ELSE activeTeam
                /\ IF run.escaped # None
                   THEN AfterBranch(p, CatchLogin(c1, run.escaped), isAuthenticating)
                   ELSE /\ load' = [load EXCEPT ![p] =
                                      Recorded(p, [c1 EXCEPT !.pc = "getSocket",
                                                             !.effects = @ \cup {"getSocket"}])]
                        /\ UNCHANGED << hasLoadedApp, isAuthenticating, loadedWrites >>

\* Lines 79-96: effects.live.getSocket() settles; `throwing` are the calls of
\* lines 80-81 that throw when made.
LoadSocketReturn(p, ok, throwing) ==
    /\ load[p].pc = "getSocket"
    /\ UNCHANGED << user, contributors, activeTeam, jwt, storedTeam, anonymousId,
                    notifications, bootstraps, observed, ownedVars, modalVars >>
    /\ IF ~ok
       THEN /\ throwing = {}
            /\ UNCHANGED hasLogIn
            /\ AfterBranch(p, CatchLogin(load[p], "getSocket"), isAuthenticating)
       ELSE LET run == RunSteps(LoginStepsAfterSocket, throwing)
                c1 == [load[p] EXCEPT !.effects = @ \cup run.called,
                                      !.failed = @ \cup run.failed]
            IN  /\ throwing \subseteq run.called
                /\ IF run.escaped # None
                   THEN /\ UNCHANGED hasLogIn
                        /\ AfterBranch(p, CatchLogin(c1, run.escaped), isAuthenticating)
                   ELSE /\ hasLogIn' = TRUE
                        /\ AfterBranch(p, c1, isAuthenticating)

\* Lines 21-22 and 95-102: the awaited continuation settles. When it rejects,
\* the await throws and the invocation ends there, rejected.
LoadContinueReturn(p, ok) ==
    /\ load[p].pc \in {"continueLoaded", "continueAction"}
    /\ UNCHANGED << hasLogIn, user, contributors, activeTeam, jwt, storedTeam,
                    anonymousId, notifications, bootstraps, observed, ownedVars,
                    modalVars >>
    /\ IF ~ok
       THEN /\ load' = [load EXCEPT ![p] = Recorded(p, [@ EXCEPT !.pc = "rejected"])]
            /\ UNCHANGED << hasLoadedApp, isAuthenticating, loadedWrites >>
       ELSE IF load[p].pc = "continueLoaded"
       THEN /\ load' = [load EXCEPT ![p] = Recorded(p, [@ EXCEPT !.pc = "done"])]
            /\ UNCHANGED << hasLoadedApp, isAuthenticating, loadedWrites >>
       ELSE Finish(p, load[p])

\* Lines 102-113: effects.http.get settles: the logins of the response are
\* stored, and a failure is ignored.
LoadContributorsReturn(p, ok, list) ==
    /\ load[p].pc = "http.get"
    /\ contributors' = IF ok THEN Logins(list) ELSE contributors
    /\ load' = [load EXCEPT ![p] = Recorded(p, [@ EXCEPT !.pc = "done"])]
    /\ UNCHANGED << hasLoadedApp, isAuthenticating, hasLogIn, user, activeTeam, jwt,
                    storedTeam, anonymousId, notifications, loadedWrites, bootstraps,
                    observed, ownedVars, modalVars >>

\* The session state when the process starts.
InitLoadState ==
    /\ hasLoadedApp = FALSE
    /\ isAuthenticating = FALSE
    /\ hasLogIn \in BOOLEAN
    /\ user = NoUser
    /\ contributors = << >>
    /\ activeTeam = NoTeam
    /\ jwt \in BOOLEAN
    /\ storedTeam \in StoredTeams
    /\ anonymousId = FALSE
    /\ notifications = 0
    /\ loadedWrites = 0
    /\ bootstraps = 0
    /\ load = [p \in LoadCalls |-> IdleLoad]
    /\ observed \in LoadCalls

NextLoad ==
    \E p \in LoadCalls :
        \/ \E k \in BOOLEAN, v \in Payloads : LoadInvoke(p, k, v)
        \/ \E ok \in BOOLEAN, u \in Users, throwing \in Throwing(LoginStepsAfterUser) :
               LoadUserReturn(p, ok, u, throwing)
        \/ \E ok \in BOOLEAN, throwing \in Throwing(LoginStepsAfterSocket) :
               LoadSocketReturn(p, ok, throwing)
        \/ \E ok \in BOOLEAN : LoadContinueReturn(p, ok)
        \/ \E ok \in BOOLEAN, list \in ContributorLists : LoadContributorsReturn(p, ok, list)


\* Each awaited call settles: the await of an invocation is resumed once the
\* promise it waits for is resolved or rejected. Dispatches are the
\* environment's and are not forced.
LoadResumes(p) ==
    \/ \E ok \in BOOLEAN, u \in Users, throwing \in Throwing(LoginStepsAfterUser) :
           LoadUserReturn(p, ok, u, throwing)
    \/ \E ok \in BOOLEAN, throwing \in Throwing(LoginStepsAfterSocket) :
           LoadSocketReturn(p, ok, throwing)
    \/ \E ok \in BOOLEAN : LoadContinueReturn(p, ok)
    \/ \E ok \in BOOLEAN, list \in ContributorLists : LoadContributorsReturn(p, ok, list)

\* ----------------------------------------------------------- createModals
ModalNames == {"forkFrozenModal", "secondModal"}

NoModal == "null"
Undefined == "undefined"
Pending == "pending"

\* The values of each modal's result type: the three outcomes of the freeze
\* prompt, and a boolean for the other modal.
ResultType(name) ==
    IF name = "forkFrozenModal" THEN {"fork", "unfreeze", "cancel"} ELSE {"true", "false"}

\* modal.result: the default result each modal is declared with.
ModalResult(name) == IF name = "forkFrozenModal" THEN "fork" ELSE "true"

\* The payloads close can be called with: a value of the result type, or none.
ClosePayloads(name) == ResultType(name) \cup {Undefined}

\* The values open can be called with for the modal's state, none included.
ModalStates(name) ==
    IF name = "forkFrozenModal" THEN {Undefined} ELSE {Undefined, "s1", "s2"}

\* JavaScript's falsy values among those of the model.
Falsy(v) == v \in {Undefined, "false"}

\* Line 203: payload || modal.result
PayloadOrResult(payload, result) == IF Falsy(payload) THEN result ELSE payload

\* Line 194: Object.assign(state.modals[name], newState), newState = {} by default.
Assigned(old, newState) == IF newState = Undefined THEN old ELSE newState

isCurrentWhilePending(name) ==
    resolver[name] # 0 /\ promise[resolver[name]] = Pending

\* Line 209-211: isCurrent(_, root) of the modal `name`.
isCurrent(name) == current = name

OpenUnlessOtherCurrent(name, newState, id) ==
    /\ promise[id] = "unused"
    /\ \A j \in PromiseIds : j < id => promise[j] # "unused"
    /\ current' = IF current = NoModal THEN name ELSE current
    /\ modalState' = [modalState EXCEPT ![name] = Assigned(@, newState)]
    /\ resolver' = [resolver EXCEPT ![name] = id]
    /\ promise' = [promise EXCEPT ![id] = Pending]
    /\ opened' = [opened EXCEPT ![id] = name]
    /\ UNCHANGED closeErrors

\* Lines 191-199: open sets the current modal, merges the state and returns a new
\* promise, id, whose resolve function becomes the modal's resolver.
Open(name, newState, id) ==
    /\ promise[id] = "unused"
    /\ \A j \in PromiseIds : j < id => promise[j] # "unused"
    /\ current' = name
    /\ modalState' = [modalState EXCEPT ![name] = Assigned(@, newState)]
    /\ resolver' = [resolver EXCEPT ![name] = id]
    /\ promise' = [promise EXCEPT ![id] = Pending]
    /\ opened' = [opened EXCEPT ![id] = name]
    /\ UNCHANGED closeErrors

\* Lines 201-204: close clears the current modal and calls the resolver, which
\* is undefined before the first open (the call throws) and has no effect on a
\* promise that is resolved already.
Close(name, payload) ==
    /\ current' = NoModal
    /\ IF resolver[name] = 0
       THEN /\ closeErrors' = TRUE
            /\ UNCHANGED promise
       ELSE /\ promise' = [promise EXCEPT ![resolver[name]] =
                             IF @ = Pending
                             THEN PayloadOrResult(payload, ModalResult(name))
                             ELSE @]
            /\ UNCHANGED closeErrors
    /\ UNCHANGED << modalState, resolver, opened >>

\* Lines 220-235: the state createModals returns, for the declared modals.
InitModals ==
    /\ current = NoModal
    /\ modalState = [name \in ModalNames |-> Undefined]
    /\ resolver = [name \in ModalNames |-> 0]
    /\ promise = [id \in PromiseIds |-> "unused"]
    /\ opened = [id \in PromiseIds |-> NoModal]
    /\ closeErrors = FALSE

\* ------------------------------------------------------- withOwnedSandbox
\* PermissionType, from the least to the most.
PermissionOrder == << "none", "read", "comment", "write_code", "write_project", "owner" >>

Level(permission) == CHOOSE i \in 1..Len(PermissionOrder) : PermissionOrder[i] = permission

\* hasPermission(authorization, requiredPermission)
hasPermission(authorization, required) == Level(authorization) >= Level(required)

\* state.editor.currentSandbox when there is none.
NoSandbox == [id |-> 0, owned |-> FALSE, authorization |-> "none", isFrozen |-> FALSE]

\* The sandboxes the editor can hold when an action is dispatched.
Sandboxes ==
    { sb \in [id : {1}, owned : BOOLEAN, authorization : {"read", "write_code", "owner"},
              isFrozen : BOOLEAN] :
        sb.owned <=> sb.authorization = "owner" }

\* The requiredPermission a withOwnedSandbox action is made with, if any.
RequiredPermissions == {Undefined, "write_code", "owner"}

\* An invocation that was not dispatched yet.
IdleOwned ==
    [ pc |-> "idle",            \* the await the invocation is suspended at
      value |-> "v1",           \* the payload of the dispatch
      required |-> Undefined,   \* the requiredPermission the action was made with
      sandbox |-> NoSandbox,    \* the sandbox read at line 123
      frozenOnEntry |-> FALSE,  \* state.editor.sessionFrozen when dispatched
      forkingOnEntry |-> FALSE, \* state.editor.isForkingSandbox when dispatched
      awaiting |-> 0,           \* the promise of forkFrozenModal.open awaited
      response |-> "none",      \* modalResponse
      forking |-> "none",       \* the fork this invocation started: none, running, ok, failed
      forkedWhileForking |-> FALSE,  \* isForkingSandbox held when it started its fork
      contCalls |-> << >>,      \* the payloads continueAction was called with
      cancelCalls |-> << >>,    \* the payloads cancelAction was called with
      result |-> "none" ]       \* whose result the action returned: continue, cancel

AccessDeniedToAll(sandbox, required) ==
    IF required = Undefined
    THEN TRUE
    ELSE ~hasPermission(sandbox.authorization, required)

\* Lines 125-129: access is denied.
AccessDenied(sandbox, required) ==
    IF required = Undefined
    THEN ~sandbox.owned
    ELSE ~hasPermission(sandbox.authorization, required)

\* Line 160: return continueAction(context, payload)
Continue(c) ==
    [c EXCEPT !.pc = "done", !.contCalls = Append(@, c.value), !.result = "continue"]

CancelWithoutReturn(c) ==
    [c EXCEPT !.pc = "done", !.cancelCalls = Append(@, c.value),
              !.contCalls = Append(@, c.value), !.result = "continue"]

\* Lines 131, 139, 150, 155: return cancelAction(context, payload)
Cancel(c) ==
    [c EXCEPT !.pc = "done", !.cancelCalls = Append(@, c.value), !.result = "cancel"]

ForkNeverInProgress == FALSE

\* Line 130: state.editor.isForkingSandbox
ForkInProgress == isForkingSandbox

UnfreezeKeepingOverride == UNCHANGED sessionFrozen

\* Line 153: state.editor.sessionFrozen = false
Unfreeze == sessionFrozen' = FALSE

\* actions.editor.internal.forkSandbox is called: a fork is in progress until
\* the call settles.
StartFork ==
    /\ isForkingSandbox' = TRUE
    /\ forksRunning' = forksRunning + 1

\* The sandbox a successful fork leaves as the current one: the user's own.
Forked(sandbox) ==
    [id |-> sandbox.id + 1, owned |-> TRUE, authorization |-> "owner", isFrozen |-> FALSE]

\* actions.editor.internal.forkSandbox settles.
EndFork(ok) ==
    /\ isForkingSandbox' = FALSE
    /\ forksRunning' = forksRunning - 1
    /\ currentSandbox' = IF ok /\ currentSandbox # NoSandbox
                         THEN Forked(currentSandbox) ELSE currentSandbox

\* Lines 134-137 and 145-148: the invocation calls forkSandbox and awaits it.
Forks(c, at) ==
    [c EXCEPT !.pc = at, !.forking = "running", !.forkedWhileForking = isForkingSandbox]

AfterForkIgnoringFailure(c, ok) ==
    Continue([c EXCEPT !.forking = IF ok THEN "ok" ELSE "failed"])

\* Lines 134-140 and 145-151: the awaited fork settled; a failure is caught and
\* the cancellation action's result returned.
AfterFork(c, ok) ==
    IF ok THEN Continue([c EXCEPT !.forking = "ok"])
          ELSE Cancel([c EXCEPT !.forking = "failed"])

\* Lines 120-160, to the first await: a withOwnedSandbox action made with the
\* permission `required` (or none) is dispatched with payload v.
OwnedInvoke(p, required, v) ==
    /\ own[p].pc = "idle"
    /\ p > 1 => own[p - 1].pc # "idle"
    /\ UNCHANGED << currentSandbox, sessionFrozen, loadVars >>
    /\ LET sandbox == currentSandbox
           c == [IdleOwned EXCEPT !.value = v, !.required = required,
                                  !.sandbox = sandbox,
                                  !.frozenOnEntry = sessionFrozen,
                                  !.forkingOnEntry = isForkingSandbox]
       IN  IF sandbox = NoSandbox
           THEN /\ own' = [own EXCEPT ![p] = Continue(c)]
                /\ UNCHANGED << isForkingSandbox, forksRunning, modalVars >>
           ELSE IF AccessDenied(sandbox, required)
           THEN IF ForkInProgress
                THEN /\ own' = [own EXCEPT ![p] = Cancel(c)]
                     /\ UNCHANGED << isForkingSandbox, forksRunning, modalVars >>
                ELSE /\ own' = [own EXCEPT ![p] = Forks(c, "forkDenied")]
                     /\ StartFork
                     /\ UNCHANGED modalVars
           ELSE IF sandbox.isFrozen /\ sessionFrozen
           THEN \E id \in PromiseIds :
                    /\ Open("forkFrozenModal", Undefined, id)
                    /\ own' = [own EXCEPT ![p] =
                                 [c EXCEPT !.pc = "forkFrozenModal", !.awaiting = id]]
                    /\ UNCHANGED << isForkingSandbox, forksRunning >>
           ELSE /\ own' = [own EXCEPT ![p] = Continue(c)]
                /\ UNCHANGED << isForkingSandbox, forksRunning, modalVars >>

\* Lines 135-140 and 146-151: the fork the invocation awaits settles.
OwnedForkReturn(p, ok) ==
    /\ own[p].pc \in {"forkDenied", "forkFrozen"}
    /\ EndFork(ok)
    /\ own' = [own EXCEPT ![p] = AfterFork(@, ok)]
    /\ UNCHANGED << sessionFrozen, modalVars, loadVars >>

\* Lines 142-160: the promise of forkFrozenModal.open was resolved and the
\* invocation resumes with modalResponse.
OwnedModalReturn(p) ==
    /\ own[p].pc = "forkFrozenModal"
    /\ promise[own[p].awaiting] \notin {Pending, "unused"}
    /\ LET c == [own[p] EXCEPT !.response = promise[own[p].awaiting]]
       IN  IF c.response = "fork"
           THEN /\ own' = [own EXCEPT ![p] = Forks(c, "forkFrozen")]
                /\ StartFork
                /\ UNCHANGED << sessionFrozen, currentSandbox >>
           ELSE IF c.response = "unfreeze"
           THEN /\ Unfreeze
                /\ own' = [own EXCEPT ![p] = Continue(c)]
                /\ UNCHANGED << currentSandbox, isForkingSandbox, forksRunning >>
           ELSE IF c.response = "cancel"
           THEN /\ own' = [own EXCEPT ![p] = Cancel(c)]
                /\ UNCHANGED << currentSandbox, sessionFrozen, isForkingSandbox, forksRunning >>
           ELSE /\ own' = [own EXCEPT ![p] = Continue(c)]
                /\ UNCHANGED << currentSandbox, sessionFrozen, isForkingSandbox, forksRunning >>
    /\ UNCHANGED << modalVars, loadVars >>

\* A modal's open action is dispatched by other code than the ownership gate.
ModalOpen(name, newState) ==
    /\ \E id \in PromiseIds : Open(name, newState, id)
    /\ UNCHANGED << ownedVars, loadVars >>

\* A modal's close action is dispatched.
ModalClose(name, payload) ==
    /\ Close(name, payload)
    /\ UNCHANGED << ownedVars, loadVars >>

\* The editor state when actions start to be dispatched.
InitOwned ==
    /\ currentSandbox \in Sandboxes \cup {NoSandbox}
    /\ sessionFrozen \in BOOLEAN
    /\ isForkingSandbox = FALSE
    /\ forksRunning = 0
    /\ own = [p \in OwnedCalls |-> IdleOwned]

\* ------------------------------------------------------- specifications
\* The app-load gate: the editor and the modals are left alone.
InitLoad ==
    /\ InitLoadState
    /\ currentSandbox = NoSandbox
    /\ sessionFrozen = FALSE
    /\ isForkingSandbox = FALSE
    /\ forksRunning = 0
    /\ own = [p \in OwnedCalls |-> IdleOwned]
    /\ InitModals

SpecLoad == InitLoad /\ [][NextLoad]_vars

FairSpecLoad ==
    SpecLoad /\ \A p \in LoadCalls : WF_vars(LoadResumes(p))

\* The ownership gate and the modals: the session state is left alone.
InitOwnedSpec ==
    /\ InitOwned
    /\ InitModals
    /\ hasLoadedApp = FALSE
    /\ isAuthenticating = FALSE
    /\ hasLogIn = FALSE
    /\ user = NoUser
    /\ contributors = << >>
    /\ activeTeam = NoTeam
    /\ jwt = FALSE
    /\ storedTeam = NoTeam
    /\ anonymousId = FALSE
    /\ notifications = 0
    /\ loadedWrites = 0
    /\ bootstraps = 0
    /\ load = [p \in LoadCalls |-> IdleLoad]
    /\ observed = 1

\* The gate's invocations, and the user answering the freeze prompt.
NextOwned ==
    \/ \E p \in OwnedCalls, required \in RequiredPermissions, v \in Payloads :
           OwnedInvoke(p, required, v)
    \/ \E p \in OwnedCalls, ok \in BOOLEAN : OwnedForkReturn(p, ok)
    \/ \E p \in OwnedCalls : OwnedModalReturn(p)
    \/ \E payload \in ClosePayloads("forkFrozenModal") : ModalClose("forkFrozenModal", payload)

SpecOwned == InitOwnedSpec /\ [][NextOwned]_vars

\* The steps in which the invocation p resumes from an await (lines 135, 142, 146).
OwnedResumes(p) ==
    \/ \E ok \in BOOLEAN : OwnedForkReturn(p, ok)
    \/ OwnedModalReturn(p)

\* The freeze prompt is closed, with any answer.
PromptCloses ==
    \E payload \in ClosePayloads("forkFrozenModal") : ModalClose("forkFrozenModal", payload)

\* Every fork that was started settles, a resolved promise resumes the
\* invocation that awaits it, and a prompt that is open is closed.
FairSpecOwned ==
    /\ SpecOwned
    /\ \A p \in OwnedCalls : WF_vars(OwnedResumes(p))
    /\ WF_vars(PromptCloses)

\* The modals alone: their open and close actions dispatched in any order.
InitModalsSpec ==
    /\ InitOwnedSpec
    /\ currentSandbox = NoSandbox
    /\ sessionFrozen = FALSE

NextModals ==
    \/ \E name \in ModalNames : \E newState \in ModalStates(name) : ModalOpen(name, newState)
    \/ \E name \in ModalNames : \E payload \in ClosePayloads(name) : ModalClose(name, payload)

SpecModals == InitModalsSpec /\ [][NextModals]_vars

\* ------------------------------------------------- withLoadApp: claims
\* The invocation is suspended inside bootstrap, before line 98.
Bootstrapping(c) == c.pc \in {"getCurrentUser", "getSocket", "continueAction"}

\* The observed invocation ran bootstrap and has left the login or anonymous branch.
BranchLeft(c) == c.booted /\ c.pc \in {"continueAction", "http.get", "done", "rejected"}

\* The observed invocation ran bootstrap and is past lines 98-99.
PastMarkLoaded(c) == c.booted /\ c.pc \in {"http.get", "done"}

\* The calls of lines 30-59 and one of the two branches of lines 61-92.
BootstrapStepsDone(c) ==
    /\ {"connection.addListener", "setStoredSettings", "codesandboxApi.listen",
        "legacyTokenCheck"} \subseteq c.effects
    /\ \/ "getCurrentUser" \in c.effects
       \/ {"identifyAnonymous", "setAnonymousId"} \subseteq c.effects
    /\ c.cont => c.contCalls = << c.value >>

LoginCalls ==
    {"getCurrentUser", "getSocket"} \cup Range(LoginStepsAfterUser)
                                    \cup Range(LoginStepsAfterSocket)

\* C1: across any sequence of invocations, overlapping ones included, the
\* bootstrap steps are executed by at most one invocation and hasLoadedApp goes
\* from false to true once.
C1_BootstrapRunsOnce == bootstraps <= 1 /\ loadedWrites <= 1

\* C2: hasLoadedApp is set to true only by an invocation that has registered
\* the listeners, loaded the settings, made the legacy-token check, run the
\* login or the anonymous branch and, when a continuation was supplied, called
\* it and seen it return; an invocation past that point has done all of it.
C2_LoadedOnlyAfterBootstrap ==
    /\ [](PastMarkLoaded(load[observed]) => BootstrapStepsDone(load[observed]))
    /\ [][ (~hasLoadedApp /\ hasLoadedApp') =>
             \E p \in LoadCalls :
                /\ Bootstrapping(load[p]) \/ load[p].pc = "idle"
                /\ load'[p].pc = "http.get"
                /\ load[p].cont => load[p].pc = "continueAction"
                /\ p = observed => BootstrapStepsDone(load'[p]) ]_vars

C2_Witness ==
    /\ hasLoadedApp
    /\ load[observed].pc = "http.get"
    /\ load[observed].cont
    /\ "preloadTemplates" \in load[observed].effects

\* C3: an invocation dispatched when hasLoadedApp is true performs no bootstrap
\* effect, leaves isAuthenticating, hasLogIn, user and contributors (and the rest
\* of the session state) as they are, and calls the continuation once with its
\* payload if one was supplied, and does nothing otherwise.
C3_LoadedGateOnlyContinues ==
    [][ LET c == load[observed]
            d == load'[observed]
        IN  /\ (c.pc = "idle" /\ d.pc # "idle" /\ hasLoadedApp) =>
                 /\ ~d.booted
                 /\ d.effects = {}
                 /\ d.contCalls = IF d.cont THEN << d.value >> ELSE << >>
                 /\ d.pc = IF d.cont THEN "continueLoaded" ELSE "done"
                 /\ UNCHANGED << hasLoadedApp, isAuthenticating, hasLogIn, user,
                                 contributors, activeTeam, jwt, anonymousId,
                                 notifications, bootstraps >>
            /\ (c.pc = "continueLoaded" /\ d # c) =>
                 /\ d = [c EXCEPT !.pc = d.pc]
                 /\ d.pc \in {"done", "rejected"}
                 /\ UNCHANGED << hasLoadedApp, isAuthenticating, hasLogIn, user,
                                 contributors, activeTeam, jwt, anonymousId,
                                 notifications, bootstraps >> ]_vars

C3_Witness ==
    /\ load[observed].pc = "done"
    /\ ~load[observed].booted
    /\ load[observed].cont
    /\ load[observed].contCalls = << load[observed].value >>
    /\ bootstraps = 1

\* C4: every invocation that starts bootstrap eventually reaches the completed
\* state, whatever the profile fetch, the socket acquisition, the continuation
\* and the contributor fetch come to, provided each awaited call settles.
C4_BootstrapCompletes ==
    \A p \in LoadCalls :
        Bootstrapping(load[p]) ~> (hasLoadedApp /\ ~isAuthenticating)

\* C5: isAuthenticating is true only while some invocation is between the start
\* of bootstrap and line 98.
C5_AuthenticatingOnlyInBootstrap ==
    isAuthenticating => \E p \in LoadCalls : Bootstrapping(load[p])

C7_TeamsAndSurveyFailuresSwallowed ==
    LET c == load[observed]
    IN  (c.failed # {} /\ c.failed \subseteq {"trackCurrentTeams", "showUserSurveyIfNeeded"}) =>
           /\ c.reported = 0
           /\ "getSocket" \in c.effects
           /\ BranchLeft(c) =>
                /\ Range(LoginStepsAfterSocket) \subseteq c.effects
                /\ hasLogIn

\* C7, amended: a failure of trackCurrentTeams is not reported and the later
\* login steps still run; a failure of showUserSurveyIfNeeded is reported
\* through handleError and the later login steps are not run.
C7_OnlyTeamsFailureSwallowed ==
    LET c == load[observed]
    IN  /\ c.failed = {"trackCurrentTeams"} =>
             /\ c.reported = 0
             /\ {"showUserSurveyIfNeeded", "getSocket"} \subseteq c.effects
             /\ BranchLeft(c) =>
                  /\ Range(LoginStepsAfterSocket) \subseteq c.effects
                  /\ hasLogIn
        /\ "showUserSurveyIfNeeded" \in c.failed =>
             /\ c.reported = 1
             /\ c.effects \cap ({"getSocket"} \cup Range(LoginStepsAfterSocket)) = {}

C7_Witness ==
    /\ load[observed].failed = {"trackCurrentTeams"}
    /\ load[observed].pc = "done"
    /\ "preloadTemplates" \in load[observed].effects
    /\ hasLogIn

\* C8: an invocation dispatched first, with hasLogIn false, finishes with
\* hasLoadedApp true, isAuthenticating false and the anonymous analytics id set,
\* having made no call of the login branch.
C8_AnonymousBootstrap ==
    LET c == load[observed]
    IN  (observed = 1 /\ c.pc = "done" /\ ~c.logInOnEntry) =>
           /\ c.booted
           /\ hasLoadedApp
           /\ ~isAuthenticating
           /\ anonymousId
           /\ "setAnonymousId" \in c.effects
           /\ c.effects \cap LoginCalls = {}
           /\ c.reported = 0

C8_Witness ==
    /\ observed = 1
    /\ load[1].pc = "done"
    /\ ~load[1].logInOnEntry
    /\ load[1].cont
    /\ anonymousId
    /\ hasLoadedApp

\* --------------------------------------------- withOwnedSandbox: claims
\* The invocation found an active sandbox and access to it denied (lines 124-129).
DeniedOnEntry(c) == c.sandbox # NoSandbox /\ AccessDenied(c.sandbox, c.required)

\* The invocation found an active sandbox, access not denied, the sandbox frozen
\* and the session freeze override active (line 141).
FrozenOnEntry(c) ==
    /\ c.sandbox # NoSandbox
    /\ ~AccessDenied(c.sandbox, c.required)
    /\ c.sandbox.isFrozen
    /\ c.frozenOnEntry

\* C9: with an active sandbox, the continuation is invoked only if access was
\* not denied or a fork succeeded and, when the sandbox was frozen with the
\* session freeze override active, only once the freeze prompt was resolved with
\* a fork that succeeded or with an unfreeze that cleared the override.
C9_ContinuationOnlyWhenAllowed ==
    [][ \A p \in OwnedCalls :
          LET c == own[p]
              d == own'[p]
          IN  (d.contCalls # c.contCalls /\ d.sandbox # NoSandbox) =>
                 /\ c.contCalls = << >>
                 /\ DeniedOnEntry(d) => d.forking = "ok"
                 /\ FrozenOnEntry(d) =>
                      \/ d.response = "fork" /\ d.forking = "ok"
                      \/ d.response = "unfreeze" /\ ~sessionFrozen' ]_vars

C9_Witness ==
    \E p \in OwnedCalls :
        /\ FrozenOnEntry(own[p])
        /\ own[p].response = "unfreeze"
        /\ own[p].contCalls = << own[p].value >>
        /\ ~sessionFrozen

\* C10: on a sandbox that is not owned, with no required permission and no fork
\* in progress, when the fork attempt fails the action returns the result of
\* the cancellation action, called with the same payload, and the continuation
\* is not invoked.
C10_FailedForkCancels ==
    \A p \in OwnedCalls :
        LET c == own[p]
        IN  ( /\ c.sandbox # NoSandbox
              /\ c.required = Undefined
              /\ ~c.sandbox.owned
              /\ ~c.forkingOnEntry
              /\ c.forking = "failed" ) =>
               /\ c.pc = "done"
               /\ c.result = "cancel"
               /\ c.cancelCalls = << c.value >>
               /\ c.contCalls = << >>

C10_Witness ==
    \E p \in OwnedCalls :
        /\ own[p].required = Undefined
        /\ own[p].sandbox # NoSandbox
        /\ ~own[p].sandbox.owned
        /\ own[p].forking = "failed"
        /\ own[p].result = "cancel"

\* The invocation was made with no required permission and found an active
\* sandbox that is owned (lines 123-127).
OwnedOnEntry(c) ==
    /\ c.pc # "idle"
    /\ c.sandbox # NoSandbox
    /\ c.required = Undefined
    /\ c.sandbox.owned

\* C11: an invocation made with no required permission on an active sandbox
\* that is owned ends by running the continuation, having attempted no fork.
C11_OwnedAlwaysContinues ==
    \A p \in OwnedCalls :
        LET c == own[p]
        IN  (OwnedOnEntry(c) /\ c.pc = "done") =>
               /\ c.contCalls = << c.value >>
               /\ c.forking = "none"

\* C11, amended: the same holds at once, with no await, when the sandbox is not
\* frozen or the session freeze override is not active; when it is frozen with
\* the override active the freeze prompt is opened instead and nothing else is
\* done before it is answered.
C11_OwnedUnfrozenContinues ==
    \A p \in OwnedCalls :
        LET c == own[p]
        IN  OwnedOnEntry(c) =>
               IF c.sandbox.isFrozen /\ c.frozenOnEntry
               THEN /\ c.awaiting # 0
                    /\ c.response = "none" =>
                         /\ c.pc = "forkFrozenModal"
                         /\ c.contCalls = << >>
                         /\ c.forking = "none"
               ELSE /\ c.pc = "done"
                    /\ c.result = "continue"
                    /\ c.contCalls = << c.value >>
                    /\ c.cancelCalls = << >>
                    /\ c.forking = "none"
                    /\ c.awaiting = 0

C11_Witness ==
    \E p \in OwnedCalls :
        /\ OwnedOnEntry(own[p])
        /\ own[p].sandbox.isFrozen
        /\ ~own[p].frozenOnEntry
        /\ own[p].contCalls = << own[p].value >>
        /\ own[p].forking = "none"

\* C12: an invocation that finds access denied while isForkingSandbox is true
\* returns the result of the cancellation action at once: it attempts no fork,
\* does not open the freeze prompt and does not invoke the continuation.
C12_DeniedWhileForkingCancels ==
    \A p \in OwnedCalls :
        LET c == own[p]
        IN  (c.pc # "idle" /\ DeniedOnEntry(c) /\ c.forkingOnEntry) =>
               /\ c.pc = "done"
               /\ c.result = "cancel"
               /\ c.cancelCalls = << c.value >>
               /\ c.contCalls = << >>
               /\ c.forking = "none"
               /\ c.awaiting = 0

C12_Witness ==
    \E p \in OwnedCalls :
        /\ DeniedOnEntry(own[p])
        /\ own[p].forkingOnEntry
        /\ own[p].result = "cancel"
        /\ forksRunning = 1

\* C13: when an invocation that found access not denied, the sandbox frozen and
\* the session freeze override active resumes with the freeze prompt resolved
\* with 'unfreeze', that step sets sessionFrozen to false, starts no fork, does
\* not invoke the cancellation action and runs the continuation.
C13_UnfreezeClearsOverrideAndContinues ==
    [][ \A p \in OwnedCalls :
          LET c == own[p]
              d == own'[p]
          IN  ( /\ c.pc = "forkFrozenModal"
                /\ d.pc # "forkFrozenModal"
                /\ FrozenOnEntry(c)
                /\ promise[c.awaiting] = "unfreeze" ) =>
                 /\ ~sessionFrozen'
                 /\ d.pc = "done"
                 /\ d.result = "continue"
                 /\ d.contCalls = << d.value >>
                 /\ d.cancelCalls = << >>
                 /\ d.forking = "none"
                 /\ forksRunning' = forksRunning
                 /\ isForkingSandbox' = isForkingSandbox ]_vars

C13_Witness ==
    \E p \in OwnedCalls :
        /\ FrozenOnEntry(own[p])
        /\ promise[own[p].awaiting] = "unfreeze"
        /\ own[p].pc = "done"
        /\ own[p].result = "continue"
        /\ own[p].forking = "none"
        /\ own[p].cancelCalls = << >>

\* ------------------------------------------------- createModals: claims
\* The promises made by the opens of the modal `name` that are not resolved.
Unresolved(name) == { id \in PromiseIds : opened[id] = name /\ promise[id] = Pending }

\* The modal was opened and its last open's promise is not resolved.
OpenPending(name) == resolver[name] # 0 /\ promise[resolver[name]] = Pending

\* C14: current is null or the name of one modal, each modal's isCurrent is
\* true exactly when current is its name, and at most one modal has isCurrent
\* true.
C14_OneCurrentModal ==
    /\ current \in ModalNames \cup {NoModal}
    /\ \A name \in ModalNames : isCurrent(name) <=> current = name
    /\ Cardinality({ name \in ModalNames : isCurrent(name) }) <= 1

C14_Witness ==
    \E name \in ModalNames : \E other \in ModalNames \ {name} :
        /\ isCurrent(name)
        /\ ~isCurrent(other)
        /\ OpenPending(name)
        /\ OpenPending(other)

\* C15: a close(payload) of a modal whose open is pending sets current to null
\* and resolves that open's promise with exactly the payload, whatever value
\* of the result type it is, and with the declared default when there is no
\* payload.
C15_CloseResolvesWithPayload ==
    [][ \A name \in ModalNames : \A payload \in ClosePayloads(name) :
          (ModalClose(name, payload) /\ OpenPending(name)) =>
             /\ current' = NoModal
             /\ promise'[resolver[name]] =
                  IF payload = Undefined THEN ModalResult(name) ELSE payload ]_vars

\* C16: when a modal B is opened while the last open of another modal A is
\* not closed, current becomes B and the promise of A's open stays unresolved.
C16_SecondOpenOverridesCurrent ==
    [][ \A A \in ModalNames : \A B \in ModalNames \ {A} :
          (OpenPending(A) /\ resolver'[B] # resolver[B]) =>
             /\ current' = B
             /\ resolver'[A] = resolver[A]
             /\ promise'[resolver[A]] = Pending ]_vars

C16_Witness ==
    \E A \in ModalNames : \E B \in ModalNames \ {A} :
        /\ OpenPending(A)
        /\ opened[resolver[A]] = A
        /\ resolver[B] > resolver[A]
        /\ current = B

\* C17: each modal has at most one unresolved promise made by its open.
C17_OnePendingPromisePerModal ==
    \A name \in ModalNames : Cardinality(Unresolved(name)) <= 1

\* --------------------------------- withOwnedSandbox and the modals: claims
\* The invocation ended by invoking the continuation or by returning the
\* result of the cancellation action, and not both.
Ended(c) ==
    /\ c.pc = "done"
    /\ \/ c.result = "continue" /\ c.contCalls = << c.value >> /\ c.cancelCalls = << >>
       \/ c.result = "cancel" /\ c.cancelCalls = << c.value >> /\ c.contCalls = << >>

\* C18: when every fork settles and the freeze prompt is closed whenever it is
\* open, every invocation that was dispatched ends, by invoking the
\* continuation or by returning the result of the cancellation action.
C18_EveryInvocationEnds ==
    \A p \in OwnedCalls : (own[p].pc # "idle") ~> Ended(own[p])

\* C19: no invocation starts a fork while isForkingSandbox is true, on the
\* denied path or on the 'fork' answer of the freeze prompt, and at most one
\* fork is in progress at any time.
C19_NoForkWhileForking ==
    /\ \A p \in OwnedCalls : ~own[p].forkedWhileForking
    /\ forksRunning <= 1

\* ------------------------------------- withLoadApp: the legacy token
\* C20: an invocation that runs bootstrap with a legacy token present deletes
\* the token and sets hasLogIn to false before the login check: it makes no
\* call of the login branch and runs the anonymous branch instead, whatever
\* hasLogIn was on entry, and hasLogIn is false from then on, when bootstrap
\* completes included.
C20_LegacyTokenForcesAnonymous ==
    LET c == load[observed]
    IN  (c.booted /\ c.jwtOnEntry) =>
           /\ ~jwt
           /\ ~hasLogIn
           /\ notifications >= 1
           /\ c.effects \cap LoginCalls = {}
           /\ {"identifyAnonymous", "setAnonymousId"} \subseteq c.effects
           /\ anonymousId
           /\ c.reported = 0

C20_Witness ==
    /\ load[observed].booted
    /\ load[observed].jwtOnEntry
    /\ load[observed].logInOnEntry
    /\ load[observed].pc = "done"
    /\ hasLoadedApp
    /\ ~hasLogIn
    /\ "setAnonymousId" \in load[observed].effects

====
